---- MODULE Spec2Model ----
(***************************************************************************)
(* Licence issuance / activation / validation service (src/main.py).       *)
(*                                                                         *)
(* The licence table is the only shared state.  Every handler except       *)
(* activate touches the table in a single statement and is one atomic      *)
(* action.  activate reads the row (Licence.query.get), decides on the     *)
(* loaded object, and writes it back at db.session.commit(): two steps     *)
(* that interleave with the steps of other requests.                       *)
(*                                                                         *)
(* Time is counted in days; datetime.utcnow() is the variable now.         *)
(***************************************************************************)
EXTENDS Integers, Sequences, FiniteSets, Bags, TLC

\* timedelta(days=30)
VALIDITY_DAYS == 30

\* os.environ.get("ADMIN_API_KEY", "changeme")
ADMIN_API_KEY == "changeme"

\* ExpiresIn of the presigned URL, in seconds
EXPIRES_IN == 120

\* licences are issued while now <= MaxGenTime
MaxGenTime == 0

\* number of activate requests that may sit between lookup and commit
MaxInFlight == 2

\* Python's None: an absent JSON field, query argument or header, a NULL column
None == "<None>"

\* values str(uuid.uuid4()).split("-")[0].upper() can take
Codes == {"0A1B2C3D", "4E5F6A7B"}

Hwids == {"GPU-123", "OTHER-HW"}

CodeInputs == Codes \cup {None}

\* activate tests the code for truth: the empty string is a case of its own
ActivateCodeInputs == CodeInputs \cup {""}

HwidInputs == Hwids \cup {"", None}

KeyInputs == {ADMIN_API_KEY, "wrongkey", None}

Filenames == {"loader.exe"}

\* the instants at which the clock is observed: the issuing period, and the
\* day before, the day of and the day after the expiry of the first licences
Times == (0 .. MaxGenTime) \cup ((VALIDITY_DAYS - 1) .. (VALIDITY_DAYS + 1))

VARIABLES
    store,     \* the licence table: licence_code -> row
    now,       \* datetime.utcnow()
    sessions,  \* bag of activate requests between lookup and commit
    last       \* the latest response sent: route, status and JSON body

vars == <<store, now, sessions, last>>

--------------------------------------------------------------------------
\* Python truthiness of an optional string: `not x` is ~Truthy(x)
Truthy(x) == x # None /\ x # ""

\* expiry.isoformat()
isoformat(t) == ToString(t)

\* Licence(licence_code=..., expiry=...): hwid is NULL, activated takes default=False
Licence(licence_code, expiry) ==
    [licence_code |-> licence_code, hwid |-> None, expiry |-> expiry, activated |-> FALSE]

\* Licence.query.get(code): the row, or nothing
query_get(code) == IF code \in DOMAIN store THEN <<store[code]>> ELSE <<>>

\* Licence.query.filter_by(hwid=hwid): the rows .first() may return (no ORDER BY)
filter_by_hwid(hwid) == {store[c] : c \in {d \in DOMAIN store : store[d].hwid = hwid}}

\* mutant: any key that is present is accepted
require_admin_present(api_key) == api_key # None

\* request.headers.get("X-API-KEY") == ADMIN_API_KEY
require_admin(api_key) == api_key = ADMIN_API_KEY

\* mutant: the validity window is not added
new_expiry_no_window(t) == t

\* datetime.utcnow() + timedelta(days=30)
new_expiry(t) == t + VALIDITY_DAYS

\* mutant: the licence expires on the day of its expiry
expired_on_the_day(licence, t) == t >= licence.expiry

\* datetime.utcnow() > licence.expiry
expired(licence, t) == t > licence.expiry

\* mutant: only the code is required
missing_code_only(code, hwid) == ~Truthy(code)

\* not code or not hwid
missing(code, hwid) == ~Truthy(code) \/ ~Truthy(hwid)

\* mutant: the hwids are compared the wrong way round
conflict_on_same_hwid(licence, hwid) == licence.activated /\ licence.hwid = hwid

\* mutant: every activated licence is refused
conflict_when_activated(licence, hwid) == licence.activated

\* mutant: a licence past its expiry is refused as well
conflict_or_expired(licence, hwid) ==
    (licence.activated /\ licence.hwid # hwid) \/ now > licence.expiry

\* licence.activated and licence.hwid != hwid
conflict(licence, hwid) == licence.activated /\ licence.hwid # hwid

\* mutant: the hwid is not compared
mismatch_flag_only(licence, hwid) == ~licence.activated

\* mutant: the flag is not tested
mismatch_hwid_only(licence, hwid) == licence.hwid # hwid

\* not licence.activated or licence.hwid != hwid
mismatch(licence, hwid) == ~licence.activated \/ licence.hwid # hwid

\* mutant: the flag is flipped instead of set
flush_toggle(row, loaded, hwid) ==
    [row EXCEPT !.hwid = IF loaded.hwid # hwid THEN hwid ELSE @,
                !.activated = IF loaded.activated # TRUE THEN TRUE ELSE FALSE]

\* mutant: activated is not set
flush_hwid_only(row, loaded, hwid) ==
    [row EXCEPT !.hwid = IF loaded.hwid # hwid THEN hwid ELSE @]

\* licence.hwid = hwid; licence.activated = True; db.session.commit():
\* the UPDATE writes the attributes whose value differs from the loaded one
\* into the current row
flush(row, loaded, hwid) ==
    [row EXCEPT !.hwid = IF loaded.hwid # hwid THEN hwid ELSE @,
                !.activated = IF loaded.activated # TRUE THEN TRUE ELSE @]

\* s3.generate_presigned_url('get_object', Params={Bucket, Key}, ExpiresIn=120)
presigned_url(filename) == <<filename, EXPIRES_IN>>

\* return jsonify(body), status  (answering a request to route)
Response(route, status, body) ==
    [route |-> route, status |-> status, body |-> body]

Msg(m) == [msg |-> m]

--------------------------------------------------------------------------
Init ==
    /\ store = <<>>
    /\ now = 0
    /\ sessions = EmptyBag
    /\ last = Response("", 0, <<>>)

\* the clock advances
Tick ==
    /\ \E t \in Times : t > now /\ now' = t
    /\ UNCHANGED <<store, sessions, last>>

\* mutant: the row is merged into the table, replacing a row with the same code
generate_code_merge(api_key, licence_code) ==
    IF ~require_admin(api_key)
    THEN /\ last' = Response("/generate_code", 401, Msg("Unauthorized"))
         /\ UNCHANGED <<store, now, sessions>>
    ELSE LET expiry == new_expiry(now) IN
         /\ store' = [c \in DOMAIN store \cup {licence_code} |->
                         IF c = licence_code THEN Licence(licence_code, expiry) ELSE store[c]]
         /\ last' = Response("/generate_code", 200,
                             [licence_code |-> licence_code, expiry |-> isoformat(expiry)])
         /\ UNCHANGED <<now, sessions>>

\* POST /generate_code
generate_code(api_key, licence_code) ==
    IF ~require_admin(api_key)
    THEN /\ last' = Response("/generate_code", 401, Msg("Unauthorized"))
         /\ UNCHANGED <<store, now, sessions>>
    ELSE LET expiry == new_expiry(now) IN
         IF licence_code \in DOMAIN store
         THEN \* INSERT violates the primary key: the commit raises
              /\ last' = Response("/generate_code", 500, Msg("IntegrityError"))
              /\ UNCHANGED <<store, now, sessions>>
         ELSE /\ store' = store @@ (licence_code :> Licence(licence_code, expiry))
              /\ last' = Response("/generate_code", 200,
                                  [licence_code |-> licence_code, expiry |-> isoformat(expiry)])
              /\ UNCHANGED <<now, sessions>>

\* what activate decides on the row it loaded: the answer of an early return,
\* or the answer it gives once the commit is done
activate_response(code, hwid) ==
    LET licence == query_get(code) IN
    IF missing(code, hwid) THEN <<400, Msg("Missing licence_code or hwid")>>
    ELSE IF licence = <<>> THEN <<404, Msg("Invalid licence code")>>
    ELSE IF conflict(licence[1], hwid)
    THEN <<403, Msg("Licence already activated on a different machine.")>>
    ELSE <<200, [msg |-> "Licence activated successfully.", licence_code |-> code]>>

\* POST /activate, up to the commit
activate(code, hwid) ==
    IF activate_response(code, hwid)[1] # 200
    THEN /\ last' = Response("/activate", activate_response(code, hwid)[1],
                             activate_response(code, hwid)[2])
         /\ UNCHANGED <<store, now, sessions>>
    ELSE /\ BagCardinality(sessions) < MaxInFlight
         /\ sessions' = sessions (+)
                SetToBag({[code |-> code, hwid |-> hwid, licence |-> query_get(code)[1]]})
         /\ UNCHANGED <<store, now, last>>

\* mutant: the UPDATE has no WHERE clause and writes every row
activate_commit_every_row(s) ==
    /\ BagIn(s, sessions)
    /\ sessions' = sessions (-) SetToBag({s})
    /\ store' = [c \in DOMAIN store |-> flush(store[c], s.licence, s.hwid)]
    /\ last' = Response("/activate", 200,
                        [msg |-> "Licence activated successfully.", licence_code |-> s.code])
    /\ UNCHANGED now

\* POST /activate, the commit and the answer
activate_commit(s) ==
    /\ BagIn(s, sessions)
    /\ sessions' = sessions (-) SetToBag({s})
    /\ store' = [store EXCEPT ![s.code] = flush(@, s.licence, s.hwid)]
    /\ last' = Response("/activate", 200,
                        [msg |-> "Licence activated successfully.", licence_code |-> s.code])
    /\ UNCHANGED now

\* mutant: the expiry is tested before the binding
check_response_expiry_first(code, hwid) ==
    LET licence == query_get(code) IN
    IF licence = <<>> THEN <<404, Msg("Licence not found")>>
    ELSE IF expired(licence[1], now) THEN <<403, Msg("Licence expired.")>>
    ELSE IF mismatch(licence[1], hwid) THEN <<403, Msg("HWID mismatch or licence not activated")>>
    ELSE <<200, Msg("Licence valid")>>

\* the answer of /check
check_response(code, hwid) ==
    LET licence == query_get(code) IN
    IF licence = <<>> THEN <<404, Msg("Licence not found")>>
    ELSE IF mismatch(licence[1], hwid) THEN <<403, Msg("HWID mismatch or licence not activated")>>
    ELSE IF expired(licence[1], now) THEN <<403, Msg("Licence expired.")>>
    ELSE <<200, Msg("Licence valid")>>

\* POST /check
check(code, hwid) ==
    /\ last' = Response("/check", check_response(code, hwid)[1], check_response(code, hwid)[2])
    /\ UNCHANGED <<store, now, sessions>>

\* the answers /check_hwid may give: one for each row .first() may return
check_hwid_responses(hwid) ==
    IF ~Truthy(hwid) THEN {<<400, Msg("Missing HWID")>>}
    ELSE IF filter_by_hwid(hwid) = {} THEN {<<404, Msg("HWID not activated.")>>}
    ELSE {IF expired(licence, now) THEN <<403, Msg("Licence expired.")>>
                                   ELSE <<200, Msg("Licence valid")>> :
            licence \in filter_by_hwid(hwid)}

\* POST /check_hwid
check_hwid(hwid) ==
    /\ \E r \in check_hwid_responses(hwid) : last' = Response("/check_hwid", r[1], r[2])
    /\ UNCHANGED <<store, now, sessions>>

\* GET /admin/list_licences
list_licences(api_key) ==
    /\ UNCHANGED <<store, now, sessions>>
    /\ IF ~require_admin(api_key)
       THEN last' = Response("/admin/list_licences", 401, Msg("Unauthorized"))
       ELSE last' = Response("/admin/list_licences", 200,
                {[licence_code |-> store[c].licence_code,
                  hwid |-> store[c].hwid,
                  expiry |-> isoformat(store[c].expiry),
                  activated |-> store[c].activated] : c \in DOMAIN store})

\* the answers /get_link may give; generate_presigned_url returns a URL or raises
get_link_responses(filename, code, hwid) ==
    LET licence == query_get(code) IN
    IF licence = <<>> THEN {<<404, Msg("Licence not found")>>}
    ELSE IF mismatch(licence[1], hwid)
    THEN {<<403, Msg("HWID mismatch or licence not activated")>>}
    ELSE IF expired(licence[1], now) THEN {<<403, Msg("Licence expired.")>>}
    ELSE {<<200, [url |-> presigned_url(filename)]>>,
          <<500, Msg("Error generating download link")>>}

\* GET /get_link/<filename>
get_link(filename, code, hwid) ==
    /\ \E r \in get_link_responses(filename, code, hwid) :
          last' = Response("/get_link", r[1], r[2])
    /\ UNCHANGED <<store, now, sessions>>

Next ==
    \/ Tick
    \/ \E k \in KeyInputs, c \in Codes :
          (require_admin(k) => now <= MaxGenTime) /\ generate_code(k, c)
    \/ \E c \in ActivateCodeInputs, h \in HwidInputs : activate(c, h)
    \/ \E s \in BagToSet(sessions) : activate_commit(s)
    \/ \E c \in CodeInputs, h \in HwidInputs : check(c, h)
    \/ \E h \in HwidInputs : check_hwid(h)
    \/ \E k \in KeyInputs : list_licences(k)
    \/ \E f \in Filenames, c \in CodeInputs, h \in HwidInputs : get_link(f, c, h)

Spec == Init /\ [][Next]_vars

\* Requests that do not overlap, licences issued at any time: licences with
\* different expiries share the table.
NextSeq ==
    \/ Tick
    \/ \E k \in KeyInputs, c \in Codes : generate_code(k, c)
    \/ \E c \in ActivateCodeInputs, h \in HwidInputs : sessions = EmptyBag /\ activate(c, h)
    \/ \E s \in BagToSet(sessions) : activate_commit(s)
    \/ \E c \in CodeInputs, h \in HwidInputs : check(c, h)
    \/ \E h \in HwidInputs : check_hwid(h)
    \/ \E k \in KeyInputs : list_licences(k)
    \/ \E f \in Filenames, c \in CodeInputs, h \in HwidInputs : get_link(f, c, h)

SpecSeq == Init /\ [][NextSeq]_vars

TypeOK ==
    /\ DOMAIN store \subseteq Codes
    /\ now \in Times
    /\ BagCardinality(sessions) <= MaxInFlight

--------------------------------------------------------------------------
\* The responses the claims speak of
HwidConflict == Response("/activate", 403, Msg("Licence already activated on a different machine."))

Activated(code) ==
    Response("/activate", 200, [msg |-> "Licence activated successfully.", licence_code |-> code])

NotFound == <<404, Msg("Licence not found")>>

NotActivatedOrMismatch == <<403, Msg("HWID mismatch or licence not activated")>>

Expired == <<403, Msg("Licence expired.")>>

Valid == <<200, Msg("Licence valid")>>

Unauthorized(route) == Response(route, 401, Msg("Unauthorized"))

\* C1: of the activate requests racing for a fresh code with distinct hwids,
\* exactly one is answered with success and the others with HwidConflict: a
\* request that commits when the licence is already bound to another hwid is
\* answered 403.
C1_RaceSafety ==
    [][\A s \in BagToSet(sessions) :
          (store[s.code].activated /\ store[s.code].hwid # s.hwid /\ activate_commit(s))
          => last' = HwidConflict]_vars

\* C2: once a licence's stored hwid has been set to h, it never holds a value
\* different from h.
C2_HwidNeverRebound ==
    [][\A c \in DOMAIN store :
          store[c].hwid # None => (c \in DOMAIN store' /\ store'[c].hwid = store[c].hwid)]_vars

\* C3: with no other request in flight, activate(code, hwidB) on a licence
\* activated by hwidA # hwidB is answered HwidConflict (403) and the licence
\* keeps hwid = hwidA and activated = true.
C3_SequentialConflict ==
    [][\A c \in Codes, h \in Hwids :
          (/\ sessions = EmptyBag
           /\ c \in DOMAIN store
           /\ store[c].activated
           /\ store[c].hwid # h
           /\ activate(c, h))
          => (last' = HwidConflict /\ store' = store /\ sessions' = EmptyBag)]_vars

C3_Witness ==
    /\ last = HwidConflict
    /\ sessions = EmptyBag
    /\ \E c \in DOMAIN store : store[c].activated /\ store[c].hwid \in Hwids

\* C4: with no other request in flight, a second activate(code, hwid) with
\* the arguments of a successful first one passes the lookup, is answered with
\* success, and leaves the stored record (hwid, activated, expiry) as it was.
C4_Idempotent ==
    [][/\ \A c \in Codes, h \in Hwids :
             (/\ sessions = EmptyBag
              /\ c \in DOMAIN store
              /\ store[c].activated
              /\ store[c].hwid = h
              /\ activate(c, h))
             => (/\ store' = store
                 /\ sessions' = SetToBag({[code |-> c, hwid |-> h, licence |-> store[c]]}))
       /\ \A s \in BagToSet(sessions) :
             (/\ BagCardinality(sessions) = 1
              /\ s.licence = store[s.code]
              /\ s.licence.activated
              /\ s.licence.hwid = s.hwid
              /\ activate_commit(s))
             => (last' = Activated(s.code) /\ store' = store)]_vars

C4_Witness ==
    \E s \in BagToSet(sessions) :
        /\ BagCardinality(sessions) = 1
        /\ s.licence = store[s.code]
        /\ s.licence.activated
        /\ s.licence.hwid = s.hwid

\* C5: check answers with the first matching row of the table: NotFound if no
\* licence has the code, else NotActivatedOrMismatch if it is not activated or
\* its hwid differs from the one supplied, else Expired if now > expiry, else
\* valid.
C5_DecisionTable ==
    \A c \in CodeInputs, h \in HwidInputs :
        check_response(c, h) =
            IF c \notin DOMAIN store THEN NotFound
            ELSE IF store[c].activated = FALSE \/ store[c].hwid # h THEN NotActivatedOrMismatch
            ELSE IF now > store[c].expiry THEN Expired
            ELSE Valid

\* a licence that is expired and bound to the other hwid has been checked
C5_Witness ==
    /\ last = Response("/check", NotActivatedOrMismatch[1], NotActivatedOrMismatch[2])
    /\ \E c \in DOMAIN store, h \in Hwids :
          /\ store[c].activated
          /\ store[c].hwid # h
          /\ now > store[c].expiry
          /\ check_response(c, h) = NotActivatedOrMismatch

\* C6: every stored licence with activated = true has a hwid that is neither
\* null nor empty.
C6_ActivatedHasHwid ==
    \A c \in DOMAIN store : store[c].activated => (store[c].hwid # None /\ store[c].hwid # "")

C6_Witness ==
    /\ \E c \in DOMAIN store : store[c].activated
    /\ last.route = "/activate" /\ last.status = 200

\* C7: a licence is created with expiry = generation time + 30 days, and no
\* step changes the expiry of an existing licence.
C7_ExpiryImmutable ==
    [][\A c \in Codes :
          /\ c \in DOMAIN store => (c \in DOMAIN store' /\ store'[c].expiry = store[c].expiry)
          /\ (c \notin DOMAIN store /\ c \in DOMAIN store') => store'[c].expiry = now + 30]_vars

C7_Witness ==
    \E c \in DOMAIN store :
        /\ store[c].expiry = 30
        /\ store[c].activated
        /\ now > store[c].expiry

\* C8: a licence is created with activated = false, and once activated is
\* true it is true in every later state.
C8_ActivatedMonotonic ==
    [][\A c \in Codes :
          /\ (c \notin DOMAIN store /\ c \in DOMAIN store') => store'[c].activated = FALSE
          /\ (c \in DOMAIN store /\ store[c].activated)
                => (c \in DOMAIN store' /\ store'[c].activated)]_vars

\* an activated licence has been activated again
C8_Witness ==
    /\ \E c \in DOMAIN store : store[c].activated /\ last = Activated(c)
    /\ \E s \in BagToSet(sessions) : s.licence.activated

\* C9: for a licence activated and bound to the hwid supplied, check answers
\* Expired exactly when now > expiry: valid the day before the expiry and on
\* the day of the expiry, Expired the day after.
C9_ExpiryBoundary ==
    \A c \in DOMAIN store :
        store[c].activated =>
            /\ (now = store[c].expiry - 1 => check_response(c, store[c].hwid) = Valid)
            /\ (now = store[c].expiry => check_response(c, store[c].hwid) = Valid)
            /\ (now = store[c].expiry + 1 => check_response(c, store[c].hwid) = Expired)
            /\ (check_response(c, store[c].hwid) = Expired <=> now > store[c].expiry)

\* a bound licence has been checked valid by the day of its expiry
C9_Witness ==
    /\ last = Response("/check", Valid[1], Valid[2])
    /\ \E c \in DOMAIN store : store[c].activated /\ now = store[c].expiry

\* C10: generate and list with an absent or different X-API-KEY are answered
\* Unauthorized (401), carry no licence data and leave the store unchanged; so
\* they succeed only with the admin secret.
C10_AdminOnly ==
    [][\A k \in KeyInputs :
          /\ \A c \in Codes :
                (k # ADMIN_API_KEY /\ generate_code(k, c))
                => (last' = Unauthorized("/generate_code") /\ store' = store)
          /\ (k # ADMIN_API_KEY /\ list_licences(k))
                => (last' = Unauthorized("/admin/list_licences") /\ store' = store)]_vars

\* list was refused while the store held licences
C10_Witness ==
    /\ last = Unauthorized("/admin/list_licences")
    /\ DOMAIN store # {}

\* C11: get_link answers 200 with a URL only when a licence with the code
\* exists, is activated, is bound to the hwid supplied and now <= expiry, that
\* is when check would answer valid; otherwise it gives check's 404/403
\* answer; when the signer fails after the checks passed it answers 500.
C11_LinkOnlyWhenValid ==
    \A f \in Filenames, c \in CodeInputs, h \in HwidInputs :
        \A r \in get_link_responses(f, c, h) :
            /\ r[1] = 200 =>
                  /\ c \in DOMAIN store
                  /\ store[c].activated
                  /\ store[c].hwid = h
                  /\ now <= store[c].expiry
                  /\ check_response(c, h) = Valid
                  /\ r[2] = [url |-> <<f, 120>>]
            /\ check_response(c, h) # Valid => r = check_response(c, h)
            /\ check_response(c, h) = Valid =>
                  r[1] = 200 \/ r = <<500, Msg("Error generating download link")>>

C11_Witness ==
    /\ last = Response("/get_link", 200, [url |-> <<"loader.exe", 120>>])
    /\ \E c \in DOMAIN store : store[c].activated /\ now <= store[c].expiry

\* C12: every response carries a status code of the set the interface table
\* gives for its operation, a code collision in generate included.
C12_StatusCodes ==
    /\ last.route = "/generate_code" => last.status \in {200, 401}
    /\ last.route = "/activate" => last.status \in {200, 400, 403, 404}
    /\ last.route = "/check" => last.status \in {200, 403, 404}
    /\ last.route = "/check_hwid" => last.status \in {200, 400, 403, 404}
    /\ last.route = "/admin/list_licences" => last.status \in {200, 401}
    /\ last.route = "/get_link" => last.status \in {200, 403, 404, 500}

\* C13: an authorized generate that draws a code already in the table fails
\* and leaves the table as it was; one that draws a new code adds exactly one
\* record, with that code, and changes no other.
C13_CodesUnique ==
    [][\A c \in Codes :
          generate_code(ADMIN_API_KEY, c) =>
            IF c \in DOMAIN store
            THEN store' = store /\ last'.status # 200
            ELSE /\ DOMAIN store' = DOMAIN store \cup {c}
                 /\ \A d \in DOMAIN store : store'[d] = store[d]
                 /\ store'[c].licence_code = c
                 /\ last'.status = 200]_vars

\* a generate has collided with the code of an activated licence
C13_Witness ==
    /\ last.route = "/generate_code" /\ last.status = 500
    /\ \E c \in DOMAIN store : store[c].activated
    /\ now = 0

\* C14: activate with a missing or empty code or hwid is answered BadRequest
\* (400) whether or not the code exists; with both present and no licence of
\* that code it is answered NotFound (404); and a step that answers an
\* activate with 400, 403 or 404 leaves the table unchanged.
C14_ActivateRejections ==
    /\ [](\A c \in ActivateCodeInputs, h \in HwidInputs :
            /\ (c \in {"", None} \/ h \in {"", None}) =>
                  activate_response(c, h) = <<400, Msg("Missing licence_code or hwid")>>
            /\ (c \notin {"", None} /\ h \notin {"", None} /\ c \notin DOMAIN store) =>
                  activate_response(c, h) = <<404, Msg("Invalid licence code")>>)
    /\ [][(last' # last /\ last'.route = "/activate" /\ last'.status \in {400, 403, 404})
            => store' = store]_vars

\* an activate without hwid was refused while the table held a bound licence
C14_Witness ==
    /\ last = Response("/activate", 400, Msg("Missing licence_code or hwid"))
    /\ \E c \in DOMAIN store : store[c].activated
    /\ DOMAIN store # Codes

\* C15: the set of stored codes never shrinks; a record is created only by an
\* authorized generate and changed only by activate's commit, which changes no
\* record but the one of the code supplied; a step that answers check,
\* check_hwid, list or get_link leaves the whole table unchanged.
C15_Frame ==
    [][/\ DOMAIN store \subseteq DOMAIN store'
       /\ (store' # store /\ DOMAIN store' # DOMAIN store) =>
             \E c \in Codes : generate_code(ADMIN_API_KEY, c)
       /\ (store' # store /\ DOMAIN store' = DOMAIN store) =>
             \E s \in BagToSet(sessions) :
                 /\ activate_commit(s)
                 /\ \A d \in DOMAIN store \ {s.code} : store'[d] = store[d]
       /\ (last' # last /\ last'.route \in {"/check", "/check_hwid", "/admin/list_licences", "/get_link"})
             => store' = store]_vars

\* one licence was bound while the other stayed as generated
C15_Witness ==
    /\ \E c, d \in DOMAIN store :
          /\ store[c].activated /\ last = Activated(c)
          /\ store[d] = Licence(d, 30)

\* C16: check answers valid for (code, hwid) only if the licence exists, is
\* activated and bound to hwid; a licence appears in the table only in an
\* authorized generate answered 200, and becomes activated with a hwid only in
\* the commit of an activate of that code and hwid answered with success: so a
\* valid check is preceded by both.  A licence never activated fails check
\* with NotActivatedOrMismatch for every hwid, a missing one included.
C16_Ordering ==
    /\ [](\A c \in CodeInputs, h \in HwidInputs :
            /\ check_response(c, h) = Valid =>
                  (c \in DOMAIN store /\ store[c].activated /\ store[c].hwid = h)
            /\ (c \in DOMAIN store /\ store[c].activated = FALSE) =>
                  check_response(c, h) = NotActivatedOrMismatch)
    /\ [][\A c \in Codes :
            /\ (c \notin DOMAIN store /\ c \in DOMAIN store') =>
                  /\ generate_code(ADMIN_API_KEY, c)
                  /\ last'.route = "/generate_code" /\ last'.status = 200
                  /\ store'[c].activated = FALSE
            /\ (c \in DOMAIN store /\ c \in DOMAIN store' /\ store'[c].activated
                  /\ (store[c].activated = FALSE \/ store[c].hwid # store'[c].hwid)) =>
                  /\ last' = Activated(c)
                  /\ \E s \in BagToSet(sessions) :
                        s.code = c /\ s.hwid = store'[c].hwid /\ activate_commit(s)]_vars

\* a check was answered valid while a licence not yet activated is refused
C16_Witness ==
    /\ last = Response("/check", Valid[1], Valid[2])
    /\ \E c \in DOMAIN store : check_response(c, store[c].hwid) = Valid
    /\ \E d \in DOMAIN store : store[d].activated = FALSE
                                /\ check_response(d, None) = NotActivatedOrMismatch

\* C17: every licence whose stored hwid is not null is activated; so when
\* check_hwid answers valid, a licence bound to the hwid is activated and not
\* past its expiry.  With an empty or missing hwid check_hwid answers 400, and
\* with no licence bound to the hwid NotFound (404).
C17_CheckHwidSound ==
    /\ \A c \in DOMAIN store : store[c].hwid # None => store[c].activated
    /\ \A h \in HwidInputs :
          \A r \in check_hwid_responses(h) :
              /\ h \in {"", None} => r = <<400, Msg("Missing HWID")>>
              /\ (h \notin {"", None} /\ ~ \E c \in DOMAIN store : store[c].hwid = h)
                    => r = <<404, Msg("HWID not activated.")>>
              /\ r = Valid =>
                    \E c \in DOMAIN store :
                        store[c].hwid = h /\ store[c].activated /\ now <= store[c].expiry

C17_Witness ==
    /\ last = Response("/check_hwid", Valid[1], Valid[2])
    /\ \E c \in DOMAIN store : store[c].hwid \in Hwids /\ now <= store[c].expiry
    /\ \E d \in DOMAIN store : store[d].hwid = None

\* C18: activate requests for one code that all carry the same hwid, run
\* concurrently on a licence that is unbound or bound to that hwid, all pass
\* the lookup, and each commit is answered with success and leaves the licence
\* with that hwid and activated = true.
C18_RetryTolerance ==
    /\ [](\A c \in DOMAIN store, h \in Hwids :
            (store[c].activated = FALSE \/ store[c].hwid = h) =>
                activate_response(c, h) = <<200, Activated(c).body>>)
    /\ [][\A s \in BagToSet(sessions) :
            (/\ last'.route = "/activate"
             /\ \A t \in BagToSet(sessions) : t.code = s.code => t.hwid = s.hwid
             /\ (store[s.code].activated = FALSE \/ store[s.code].hwid = s.hwid)
             /\ activate_commit(s))
            => /\ last' = Activated(s.code)
               /\ store'[s.code].hwid = s.hwid
               /\ store'[s.code].activated]_vars

\* one of two overlapping requests with the same hwid has committed, the
\* other one, which loaded the unbound row, has not yet
C18_Witness ==
    \E s \in BagToSet(sessions) :
        /\ s.licence.activated = FALSE
        /\ store[s.code].activated
        /\ store[s.code].hwid = s.hwid
        /\ last = Activated(s.code)

\* C20: activate does not look at the clock or the expiry: on an unbound
\* licence past its expiry it passes the lookup, its commit is answered with
\* success and binds the hwid as for any other licence, and check with the
\* same arguments then answers Expired.
C20_ActivateIgnoresExpiry ==
    /\ [](\A c \in DOMAIN store, h \in Hwids :
            (store[c].activated = FALSE /\ now > store[c].expiry) =>
                activate_response(c, h)[1] = 200)
    /\ [][\A s \in BagToSet(sessions) :
            (/\ last'.route = "/activate"
             /\ s.licence.activated = FALSE
             /\ activate_commit(s))
            => /\ last' = Activated(s.code)
               /\ store'[s.code] = [store[s.code] EXCEPT !.hwid = s.hwid, !.activated = TRUE]
               /\ check_response(s.code, s.hwid)' =
                     IF now > store[s.code].expiry THEN Expired ELSE Valid]_vars

\* a licence was activated and is past its expiry
C20_Witness ==
    \E c \in DOMAIN store :
        /\ last = Activated(c)
        /\ store[c].activated
        /\ now > store[c].expiry

\* C19: the two validation paths agree: whenever check(code, hwid) answers
\* Valid for some code, every answer check_hwid(hwid) can give is Valid too,
\* also when several licences are bound to that hwid.
C19_PathsAgree ==
    \A c \in CodeInputs, h \in HwidInputs :
        check_response(c, h) = Valid =>
            \A r \in check_hwid_responses(h) : r = Valid
====
